---- MODULE Spec2Model ----
EXTENDS Integers, Sequences, FiniteSets, TLC

\* Bounds of the model.
MaxN == 3
MaxEdges == 3
WNeg == 1
WPos == 1
MaxRuns == 2

\* float('inf'): larger than every finite distance the bounded model reaches.
INF == 1000000

Weights == -WNeg..WPos

VARIABLES
  file,   \* the graph file read by load_from_file
  ret,    \* value returned by load_from_file: "True", "False" ("none" before the call)
  n,      \* Graph.num_vertices
  L,      \* Graph.L      : (i, j) -> distance
  P,      \* Graph.P      : (i, j) -> predecessor list
  A,      \* Graph.initial_adj
  runs,   \* number of completed floyd_warshall calls
  out,    \* value returned by the last query method
  pc      \* position k*n*n + i*n + j of the next relaxation of a running
          \* floyd_warshall, -1 when it is not running

vars == <<file, ret, n, L, P, A, runs, out, pc>>

V(m) == 0..(m - 1)

Min(S) == CHOOSE x \in S : \A y \in S : x <= y

\* Python list indexing: x is a valid index of a list of length m, and the
\* position it designates.
PyOk(x, m) == -m <= x /\ x < m
PyIx(x, m) == IF x < 0 THEN x + m ELSE x

InSeq(x, s) == \E q \in 1..Len(s) : s[q] = x

\* Mutant: every element of source is appended, duplicates included.
RECURSIVE AddAllFrom(_, _, _)
AddAllFrom(target, source, q) ==
  IF q > Len(source) THEN target
  ELSE AddAllFrom(Append(target, source[q]), source, q + 1)

\* Graph._add_unique: append each element of source missing from target.
RECURSIVE AddUniqueFrom(_, _, _)
AddUniqueFrom(target, source, q) ==
  IF q > Len(source) THEN target
  ELSE AddUniqueFrom(IF InSeq(source[q], target) THEN target
                     ELSE Append(target, source[q]), source, q + 1)

AddUnique(target, source) == AddUniqueFrom(target, source, 1)

\* ---------------------------------------------------------------------
\* load_from_file
\* A file is [nv |-> n, hasne |-> whether the edge-count line is present,
\* ne |-> declared edge count, lines |-> edge lines], each edge line being the
\* list of integers of the line.

InitMatrix(m) == [ij \in V(m) \X V(m) |-> IF ij[1] = ij[2] THEN 0 ELSE INF]

\* Mutant: an edge line records its destination v as predecessor.
RECURSIVE LoadEdgesDst(_, _, _)
LoadEdgesDst(st, f, i) ==
  IF i >= f.ne THEN st
  ELSE IF ~(i < Len(f.lines)) THEN LoadEdgesDst(st, f, i + 1)
  ELSE LET ln == f.lines[i + 1]
           m == f.nv
       IN IF Len(ln) < 3 THEN [st EXCEPT !.ok = FALSE]
          ELSE LET u == ln[1]
                   v == ln[2]
                   w == ln[3]
               IN IF ~(PyOk(u, m) /\ PyOk(v, m)) THEN [st EXCEPT !.ok = FALSE]
                  ELSE LET uv == <<PyIx(u, m), PyIx(v, m)>>
                       IN LoadEdgesDst([st EXCEPT !.L[uv] = w, !.A[uv] = w,
                                          !.P[uv] = IF InSeq(v, @) THEN @
                                                    ELSE Append(@, v)],
                                       f, i + 1)

RECURSIVE LoadEdges(_, _, _)
LoadEdges(st, f, i) ==
  IF i >= f.ne THEN st
  ELSE IF ~(i < Len(f.lines)) THEN LoadEdges(st, f, i + 1)
  ELSE LET ln == f.lines[i + 1]
           m == f.nv
       IN IF Len(ln) < 3 THEN [st EXCEPT !.ok = FALSE]
          ELSE LET u == ln[1]
                   v == ln[2]
                   w == ln[3]
               IN IF ~(PyOk(u, m) /\ PyOk(v, m)) THEN [st EXCEPT !.ok = FALSE]
                  ELSE LET uv == <<PyIx(u, m), PyIx(v, m)>>
                       IN LoadEdges([st EXCEPT !.L[uv] = w, !.A[uv] = w,
                                       !.P[uv] = IF InSeq(u, @) THEN @
                                                 ELSE Append(@, u)],
                                    f, i + 1)

LoadResult(f) ==
  LoadEdges([ok |-> TRUE,
             L |-> InitMatrix(f.nv),
             P |-> [ij \in V(f.nv) \X V(f.nv) |-> <<>>],
             A |-> InitMatrix(f.nv)], f, 0)

LoadFromFile(f) ==
  LET r == LoadResult(f) IN
  /\ ret = "none"
  /\ file' = f
  \* self.num_vertices = int(lines[0]) precedes num_edges = int(lines[1]).
  /\ n' = f.nv
  /\ IF f.hasne
     THEN /\ ret' = IF r.ok THEN "True" ELSE "False"
          /\ L' = r.L
          /\ P' = r.P
          /\ A' = r.A
     ELSE \* lines[1] raises IndexError before L, P, initial_adj are rebuilt.
          /\ ret' = "False"
          /\ UNCHANGED <<L, P, A>>
  /\ UNCHANGED <<runs, out, pc>>

\* Files of well-formed graphs: m vertices, at most MaxEdges edges with
\* indices in [0, m), one line per (u, v) pair, in increasing (u, v) order
\* (repeating a pair or reordering the lines loads no other graph).
IncSeqs(k, N) == { s \in [1..k -> 0..(N - 1)] : \A q \in 1..(k - 1) : s[q] < s[q + 1] }

GraphFile(m, ps, ws) ==
  [nv |-> m, hasne |-> TRUE, ne |-> Len(ps),
   lines |-> [q \in 1..Len(ps) |-> <<ps[q] \div m, ps[q] % m, ws[q]>>]]

Load ==
  /\ ret = "none"
  /\ \E m \in 1..MaxN, k \in 0..MaxEdges :
       \E ps \in IncSeqs(k, m * m), ws \in [1..k -> Weights] :
         LoadFromFile(GraphFile(m, ps, ws))

\* ---------------------------------------------------------------------
\* floyd_warshall: one relaxation step (k, i, j) on st = [L, P].

\* Mutant: a tie does not merge the predecessors of k -> j.
RelaxNoTie(st, k, i, j) ==
  LET ik == st.L[<<i, k>>]
      kj == st.L[<<k, j>>]
      ij == st.L[<<i, j>>]
  IN IF ik # INF /\ kj # INF /\ ik + kj < ij THEN
       [L |-> [st.L EXCEPT ![<<i, j>>] = ik + kj],
        P |-> [st.P EXCEPT ![<<i, j>>] = AddUnique(<<>>, st.P[<<k, j>>])]]
     ELSE st

Relax(st, k, i, j) ==
  LET ik == st.L[<<i, k>>]
      kj == st.L[<<k, j>>]
      ij == st.L[<<i, j>>]
  IN IF ik # INF /\ kj # INF THEN
       LET nd == ik + kj IN
       IF nd < ij THEN
         \* P[i][j] = [] then _add_unique(P[i][j], P[k][j]); P[k][j] is read
         \* after the reset, so it is the new empty list when k = i.
         LET P1 == [st.P EXCEPT ![<<i, j>>] = <<>>] IN
         [L |-> [st.L EXCEPT ![<<i, j>>] = nd],
          P |-> [P1 EXCEPT ![<<i, j>>] = AddUnique(P1[<<i, j>>], P1[<<k, j>>])]]
       ELSE IF nd = ij THEN
         [st EXCEPT !.P[<<i, j>>] = AddUnique(st.P[<<i, j>>], st.P[<<k, j>>])]
       ELSE st
     ELSE st

\* Mutant: L[i][j] takes the candidate whenever both terms are finite.
StepAssign(st, m) ==
  LET k == st.t \div (m * m)
      i == (st.t \div m) % m
      j == st.t % m
      ik == st.L[<<i, k>>]
      kj == st.L[<<k, j>>]
  IN IF ik # INF /\ kj # INF
     THEN [L |-> [st.L EXCEPT ![<<i, j>>] = ik + kj],
           P |-> [st.P EXCEPT ![<<i, j>>] = AddUnique(<<>>, st.P[<<k, j>>])],
           t |-> st.t + 1]
     ELSE [L |-> st.L, P |-> st.P, t |-> st.t + 1]

\* One pass of the k, i, j loops on st = [L, P, t], t = k*m*m + i*m + j being
\* the position of the next relaxation.
Step(st, m) ==
  LET r == Relax(st, st.t \div (m * m), (st.t \div m) % m, st.t % m)
  IN [L |-> r.L, P |-> r.P, t |-> st.t + 1]

\* Mutant: the k loop stops before the last vertex (range(n - 1)).
RECURSIVE LoopsShort(_, _)
LoopsShort(st, m) ==
  IF st.t >= m * m * (m - 1) THEN st ELSE LoopsShort(Step(st, m), m)

\* for k in range(n): for i in range(n): for j in range(n)
RECURSIVE Loops(_, _)
Loops(st, m) ==
  IF st.t >= m * m * m THEN st ELSE Loops(Step(st, m), m)

FloydWarshall ==
  /\ ret = "True"
  /\ runs < MaxRuns
  /\ LET st == Loops([L |-> L, P |-> P, t |-> 0], n) IN
       /\ L' = st.L
       /\ P' = st.P
  /\ runs' = runs + 1
  /\ out' = [op |-> "none"]
  /\ UNCHANGED <<file, ret, n, A, pc>>

\* ---------------------------------------------------------------------
\* Queries (called by the GUI after floyd_warshall).

\* Mutant: a zero self-distance counts as a negative cycle.
HasNegativeCycleLe == \E i \in V(n) : L[<<i, i>>] <= 0

HasNegativeCycle == \E i \in V(n) : L[<<i, i>>] < 0

QueryNegativeCycle ==
  /\ runs >= 1
  /\ out' = [op |-> "neg", res |-> HasNegativeCycle]
  /\ UNCHANGED <<file, ret, n, L, P, A, runs, pc>>


\* get_negative_cycle_path, returning the list and how the backward walk ended.
FirstNegVertex ==
  IF \E i \in V(n) : L[<<i, i>>] < 0
  THEN Min({i \in V(n) : L[<<i, i>>] < 0})
  ELSE -1

\* curr is compared raw with start_node, while P[start_node][curr] wraps a
\* negative curr (stored by load_from_file) as Python indexing does.
RECURSIVE Walk(_, _, _, _)
Walk(s, curr, path, steps) ==
  IF ~(curr # s /\ steps < n * 2)
  THEN [path |-> path, exit |-> IF curr = s THEN "reached" ELSE "bound"]
  ELSE IF P[<<s, PyIx(curr, n)>>] = <<>> THEN [path |-> path, exit |-> "dead"]
  ELSE LET c == Head(P[<<s, PyIx(curr, n)>>]) IN Walk(s, c, Append(path, c), steps + 1)

Reverse(s) == [q \in 1..Len(s) |-> s[Len(s) + 1 - q]]

NegativeCyclePath ==
  LET s == FirstNegVertex IN
  IF s = -1 THEN [path |-> <<>>, exit |-> "nocycle"]
  ELSE IF A[<<s, s>>] < 0 THEN [path |-> <<s, s>>, exit |-> "selfloop"]
  ELSE IF P[<<s, s>>] = <<>> THEN [path |-> <<>>, exit |-> "nopred"]
  ELSE LET w == Walk(s, Head(P[<<s, s>>]), <<Head(P[<<s, s>>])>>, 0)
           r == Reverse(w.path)
       IN [path |-> IF r # <<>> /\ r[1] # r[Len(r)] THEN Append(r, r[1]) ELSE r,
           exit |-> w.exit]

QueryNegativeCyclePath ==
  /\ runs >= 1
  /\ out' = [op |-> "cycle", res |-> NegativeCyclePath]
  /\ UNCHANGED <<file, ret, n, L, P, A, runs, pc>>

\* get_all_shortest_paths(start, end), act being the ends of the active
\* calls (start is fixed). A call repeating an active (start, end) computes
\* the same thing again, so the recursion never ends and Python raises
\* RecursionError: ok = FALSE. end is compared raw (start == end,
\* pred == end) and wrapped when it indexes L and P.
RECURSIVE Enum(_, _, _)
RECURSIVE EnumPreds(_, _, _, _, _)
Enum(s, e, act) ==
  IF e \in act THEN [ok |-> FALSE, paths |-> <<>>]
  ELSE IF L[<<s, PyIx(e, n)>>] = INF THEN [ok |-> TRUE, paths |-> <<>>]
  ELSE IF s = e THEN [ok |-> TRUE, paths |-> << <<s>> >>]
  ELSE EnumPreds(s, e, act \cup {e}, 1, [ok |-> TRUE, paths |-> <<>>])

EnumPreds(s, e, act, q, acc) ==
  IF q > Len(P[<<s, PyIx(e, n)>>]) THEN acc
  ELSE LET pred == P[<<s, PyIx(e, n)>>][q] IN
       IF pred = e THEN EnumPreds(s, e, act, q + 1, acc)
       ELSE LET sub == Enum(s, pred, act) IN
            IF ~sub.ok THEN [ok |-> FALSE, paths |-> <<>>]
            ELSE EnumPreds(s, e, act, q + 1,
                   [ok |-> TRUE,
                    paths |-> acc.paths \o [r \in 1..Len(sub.paths) |-> Append(sub.paths[r], e)]])

GetAllShortestPaths(s, e) == Enum(s, e, {})

QueryAllShortestPaths ==
  /\ runs >= 1
  /\ \E s, e \in V(n) :
       out' = [op |-> "paths", s |-> s, e |-> e, res |-> GetAllShortestPaths(s, e)]
  /\ UNCHANGED <<file, ret, n, L, P, A, runs, pc>>

\* ---------------------------------------------------------------------
Init ==
  /\ file = [nv |-> 0, hasne |-> TRUE, ne |-> 0, lines |-> <<>>]
  /\ ret = "none"
  /\ n = 0
  /\ L = InitMatrix(0)
  /\ P = [ij \in {} |-> <<>>]
  /\ A = InitMatrix(0)
  /\ runs = 0
  /\ out = [op |-> "none"]
  /\ pc = -1

Next ==
  \/ Load
  \/ FloydWarshall
  \/ QueryNegativeCycle
  \/ QueryNegativeCyclePath
  \/ QueryAllShortestPaths

Spec == Init /\ [][Next]_vars

\* The closure alone: load a graph, then floyd_warshall.
NextClosure == Load \/ FloydWarshall

ClosureSpec == Init /\ [][NextClosure]_vars

\* floyd_warshall one relaxation at a time: the call, each (k, i, j) step of
\* its loops, and its return.
FWBegin ==
  /\ ret = "True"
  /\ pc = -1
  /\ runs < MaxRuns
  /\ pc' = 0
  /\ UNCHANGED <<file, ret, n, L, P, A, runs, out>>

FWRelax ==
  /\ 0 <= pc /\ pc < n * n * n
  /\ LET st == Step([L |-> L, P |-> P, t |-> pc], n) IN
       /\ L' = st.L
       /\ P' = st.P
       /\ pc' = st.t
  /\ UNCHANGED <<file, ret, n, A, runs, out>>

FWEnd ==
  /\ pc = n * n * n
  /\ pc' = -1
  /\ runs' = runs + 1
  /\ out' = [op |-> "none"]
  /\ UNCHANGED <<file, ret, n, L, P, A>>

NextStep == Load \/ FWBegin \/ FWRelax \/ FWEnd

StepSpec == Init /\ [][NextStep]_vars

\* ---------------------------------------------------------------------
\* The loaded graph, computed independently of the closure.

Edges == { <<file.lines[q][1], file.lines[q][2]>> : q \in 1..Len(file.lines) }

MinInf(S) == IF S = {} THEN INF ELSE Min(S)

\* WalkMin(k)[i, j]: least weight of a walk i -> j with 1..k edges.
RECURSIVE WalkMinFrom(_, _)
WalkMinFrom(D, k) ==
  IF k <= 1 THEN D
  ELSE WalkMinFrom([ij \in V(n) \X V(n) |->
                     MinInf(({D[ij]} \ {INF}) \cup
                            { D[<<ij[1], v>>] + A[<<v, ij[2]>>] :
                              v \in { x \in V(n) : D[<<ij[1], x>>] # INF /\ <<x, ij[2]>> \in Edges } })],
                   k - 1)

WalkMin == WalkMinFrom([ij \in V(n) \X V(n) |-> IF ij \in Edges THEN A[ij] ELSE INF], n)

NegCycleIn(W) == \E i \in V(n) : W[<<i, i>>] < 0

NegCycle == NegCycleIn(WalkMin)

\* Shortest-path cost, the empty path giving 0 from i to i.
TrueDistIn(W, i, j) == IF i = j THEN 0 ELSE W[<<i, j>>]

PosSelfLoop(i) == <<i, i>> \in Edges /\ A[<<i, i>>] > 0

Closed == runs >= 1

\* ---------------------------------------------------------------------
\* Claims.

\* C1 (as stated): without a negative cycle, after floyd_warshall every L[i][j]
\* is the shortest-path cost, 0 on the diagonal even with a positive self-loop.
C1_Original ==
  Closed =>
    LET W == WalkMin IN
    ~NegCycleIn(W) => \A i, j \in V(n) : L[<<i, j>>] = TrueDistIn(W, i, j)

\* C1 (amended): without a negative cycle, after floyd_warshall L[i][j] is the
\* shortest-path cost for i # j; L[i][i] is 0, except for a vertex with a
\* positive self-loop, where it is the least weight of a closed walk through i.
C1_Amended ==
  Closed =>
    LET W == WalkMin IN
    ~NegCycleIn(W) =>
      \A i, j \in V(n) :
        L[<<i, j>>] = IF i = j /\ PosSelfLoop(i) THEN W[<<i, i>>] ELSE TrueDistIn(W, i, j)

C1_Witness ==
  /\ Closed /\ ~NegCycle
  /\ \E i \in V(n) : PosSelfLoop(i)
  /\ \E i, j \in V(n) : i # j /\ L[<<i, j>>] # INF /\ L[<<i, j>>] < A[<<i, j>>]

\* The triangle inequality on L between finite terms.
Triangle ==
  \A i, j, k \in V(n) :
    L[<<i, k>>] # INF /\ L[<<k, j>>] # INF => L[<<i, j>>] <= L[<<i, k>>] + L[<<k, j>>]

\* C2 (as stated): after floyd_warshall on any graph, L[i][j] <= L[i][k] + L[k][j]
\* whenever both terms are finite.
C2_Original == Closed => Triangle

\* C2 (amended): the triangle inequality holds after floyd_warshall on every
\* graph without a negative cycle.
C2_Amended == Closed /\ ~NegCycle => Triangle

C2_Witness ==
  /\ Closed /\ ~NegCycle
  /\ \E i, j, k \in V(n) : i # k /\ k # j /\ i # j /\ L[<<i, k>>] # INF /\ L[<<k, j>>] # INF

\* C3 (as stated): a second floyd_warshall leaves L and P unchanged.
C3_Original == [][runs = 1 /\ runs' = 2 => L' = L /\ P' = P]_vars

\* C3 (amended): on a graph without a negative cycle, a second floyd_warshall
\* leaves L and every ordered list P[i][j] unchanged.
C3_Amended == [][runs = 1 /\ runs' = 2 /\ ~NegCycle => L' = L /\ P' = P]_vars

C3_Witness ==
  /\ runs = 2 /\ ~NegCycle
  /\ \E i, j \in V(n) : i # j /\ Len(P[<<i, j>>]) >= 2

\* C4: after floyd_warshall, has_negative_cycle() is true iff the graph has a
\* cycle of negative total weight (a negative self-loop included).
C4_NegCycleDetection == Closed => (HasNegativeCycle <=> NegCycle)

C4_Witness ==
  /\ Closed /\ HasNegativeCycle
  /\ \A i \in V(n) : ~(<<i, i>> \in Edges /\ A[<<i, i>>] < 0)

\* Predecessors p of j whose edge p -> j ends a shortest i -> j path (for p = i,
\* the direct edge alone).
TyingPreds(i, j) ==
  { p \in V(n) :
      /\ <<p, j>> \in Edges
      /\ IF p = i THEN A[<<i, j>>] = L[<<i, j>>]
         ELSE L[<<i, p>>] # INF /\ L[<<i, p>>] + A[<<p, j>>] = L[<<i, j>>] }

Range(s) == { s[q] : q \in 1..Len(s) }

\* C7: without a negative cycle, after floyd_warshall, for i # j with L[i][j]
\* finite, P[i][j] holds exactly the p with an edge p -> j such that a
\* shortest i -> p path followed by that edge costs L[i][j] (for p = i, the
\* direct edge alone).
C7_PredecessorsComplete ==
  Closed /\ ~NegCycle =>
    \A i, j \in V(n) : i # j /\ L[<<i, j>>] # INF => Range(P[<<i, j>>]) = TyingPreds(i, j)

C7_Witness ==
  /\ Closed /\ ~NegCycle
  /\ \E i, j \in V(n) : i # j /\ Len(P[<<i, j>>]) >= 2

\* Simple paths s -> e over the loaded edges, and their weight.
RECURSIVE Extend(_, _)
Extend(path, e) ==
  IF path[Len(path)] = e THEN {path}
  ELSE UNION { Extend(Append(path, v), e) :
               v \in { x \in V(n) : x \notin Range(path) /\ <<path[Len(path)], x>> \in Edges } }

RECURSIVE CostFrom(_, _)
CostFrom(path, q) ==
  IF q >= Len(path) THEN 0 ELSE A[<<path[q], path[q + 1]>>] + CostFrom(path, q + 1)

Cost(path) == CostFrom(path, 1)

ShortestPaths(s, e) ==
  LET S == Extend(<<s>>, e) IN
  IF S = {} THEN {} ELSE { p \in S : \A q \in S : Cost(p) <= Cost(q) }

\* C5: without a negative cycle, after floyd_warshall, get_all_shortest_paths
\* returns each minimum-cost start -> end path exactly once and nothing else.
C5_AllShortestPaths ==
  out.op = "paths" /\ ~NegCycle =>
    /\ out.res.ok
    /\ Range(out.res.paths) = ShortestPaths(out.s, out.e)
    /\ Len(out.res.paths) = Cardinality(Range(out.res.paths))

\* C6: without a negative cycle, after floyd_warshall, get_all_shortest_paths
\* returns without its recursion going deeper than n calls.
C6_EnumerationTerminates ==
  out.op = "paths" /\ ~NegCycle => out.res.ok

\* C8: when the backward walk of get_negative_cycle_path dead-ends on an empty
\* predecessor list or exhausts its 2n steps, the result is the empty list.
C8_FailedWalkEmpty ==
  out.op = "cycle" /\ out.res.exit \in {"dead", "bound"} => out.res.path = <<>>

\* C9: a non-empty result of get_negative_cycle_path is a closed walk from the
\* first vertex i with L[i][i] < 0, along loaded edges, of negative weight.
C9_CycleWitness ==
  out.op = "cycle" /\ out.res.path # <<>> =>
    LET c == out.res.path IN
    /\ Len(c) >= 2
    /\ c[1] = FirstNegVertex /\ c[Len(c)] = FirstNegVertex
    /\ \A q \in 1..(Len(c) - 1) : <<c[q], c[q + 1]>> \in Edges
    /\ Cost(c) < 0

\* A self-loop edge j -> j of weight 0, and of weight <= 0.
ZeroSelfLoop(j) == <<j, j>> \in Edges /\ A[<<j, j>>] = 0

NonPosSelfLoop(j) == <<j, j>> \in Edges /\ A[<<j, j>>] <= 0

\* No vertex j is recorded as its own predecessor for another origin.
NoSelfPred == \A i, j \in V(n) : i # j => ~InSeq(j, P[<<i, j>>])

\* C15 (as stated): for a loaded graph without a zero-weight self-loop, after
\* floyd_warshall, j is not in P[i][j] for any i # j.
C15_Original == Closed /\ ~(\E j \in V(n) : ZeroSelfLoop(j)) => NoSelfPred

\* C15 (amended): after floyd_warshall, for every i # j, j is in P[i][j] only
\* if the loaded graph has a self-loop j -> j of weight <= 0; so a graph without
\* such a self-loop has no j in any P[i][j].
C15_Amended ==
  Closed =>
    \A i, j \in V(n) : i # j /\ InSeq(j, P[<<i, j>>]) => NonPosSelfLoop(j)

C15_Witness ==
  /\ Closed
  /\ \E i, j \in V(n) : i # j /\ InSeq(j, P[<<i, j>>]) /\ A[<<j, j>>] < 0

\* ---------------------------------------------------------------------
\* load_from_file on one-edge files whose indices range over both sides of
\* [0, n).
LoadIndices ==
  /\ ret = "none"
  /\ \E m \in 1..MaxN, u, v \in -(MaxN + 1)..MaxN :
       LoadFromFile([nv |-> m, hasne |-> TRUE, ne |-> 1, lines |-> << <<u, v, 1>> >>])

LoadSpec == Init /\ [][LoadIndices]_vars

\* C10: load_from_file returns False when an edge line it reads has a source
\* or destination index outside [0, n), negative indices included.
C10_OutOfRangeRejected ==
  ret # "none" /\
  (\E q \in 1..Len(file.lines) :
      /\ q <= file.ne
      /\ Len(file.lines[q]) >= 3
      /\ \/ file.lines[q][1] \notin V(file.nv)
         \/ file.lines[q][2] \notin V(file.nv))
  => ret = "False"
\* ---------------------------------------------------------------------
\* load_from_file on a fresh Graph with files that fail: the edge-count line
\* missing, or a valid edge line followed by an out-of-range or malformed one.
BadLines(m) == { <<m, 0, 1>>, <<0, -(m + 1), 1>>, <<0, 1>> }

LoadFailures ==
  /\ ret = "none"
  /\ \E m \in 1..MaxN :
       \/ LoadFromFile([nv |-> m, hasne |-> FALSE, ne |-> 0, lines |-> <<>>])
       \/ \E u, v \in V(m), w \in Weights, bad \in BadLines(m) :
            LoadFromFile([nv |-> m, hasne |-> TRUE, ne |-> 2,
                          lines |-> << <<u, v, w>>, bad >>])

FailSpec == Init /\ [][LoadFailures]_vars

\* C11: when load_from_file returns False, num_vertices, L, P and initial_adj
\* are those the Graph had before the call.
C11_FailedLoadUnchanged ==
  [][ret = "none" /\ ret' = "False" => n' = n /\ L' = L /\ P' = P /\ A' = A]_vars
\* ---------------------------------------------------------------------
\* Relaxation steps of a running floyd_warshall (StepSpec).

\* The step from position pc to pc + 1.
RelaxStep == 0 <= pc /\ pc < n * n * n /\ pc' = pc + 1

\* C12: after a successful load and after every relaxation step, for i # j,
\* P[i][j] is non-empty iff L[i][j] is finite, and every p in P[i][j] has
\* L[i][p] finite.
C12_PredecessorInvariant ==
  ret = "True" =>
    \A i, j \in V(n) :
      i # j =>
        /\ (P[<<i, j>>] # <<>>) <=> (L[<<i, j>>] # INF)
        /\ \A p \in Range(P[<<i, j>>]) : p \in V(n) => L[<<i, p>>] # INF

\* C13: a relaxation step whose candidate L[i][k] + L[k][j] is strictly below
\* L[i][j] leaves P[i][j] equal to the list P[k][j] held before the step.
C13_ResetToPkj ==
  [][RelaxStep =>
       LET k == pc \div (n * n)
           i == (pc \div n) % n
           j == pc % n
       IN /\ L[<<i, k>>] # INF /\ L[<<k, j>>] # INF
          /\ L[<<i, k>>] + L[<<k, j>>] < L[<<i, j>>]
          => P'[<<i, j>>] = P[<<k, j>>]]_vars

\* C14: no relaxation step increases any entry of L.
C14_Monotone ==
  [][RelaxStep => \A ij \in DOMAIN L : L'[ij] <= L[ij]]_vars

C14_Witness ==
  /\ pc >= 1
  /\ \E ij \in DOMAIN L : L[ij] < A[ij]
====
